---- MODULE Spec2Model ----
(***************************************************************************)
(* mguid::Trie<char, int> (include/Trie/Trie.hpp): a prefix tree whose     *)
(* nodes own an optional vector of children and an optional value.         *)
(*                                                                         *)
(* Representation                                                          *)
(*   std::optional<T>   a sequence of length 0 (nullopt) or 1 (engaged)    *)
(*   std::vector<T>     a sequence                                         *)
(*   TrieNode           [character, opt_children, opt_value]               *)
(*   TrieNode*          nullptr, or Ptr(p) with p the sequence of child    *)
(*                      indices leading from m_root to the node            *)
(*   const char[N]     a string literal "text" is the sequence of its     *)
(*                      characters followed by the terminating '\0'        *)
(*   std::size_t        NLimbs limbs of LimbBits bits, least significant   *)
(*                      first, so that ++ and -- wrap as they do in C++    *)
(***************************************************************************)
EXTENDS Integers, Sequences, FiniteSets, TLC

VARIABLES m_root, m_size, last

vars == <<m_root, m_size, last>>

\* ---------------------------------------------------------------- bounds
MaxKeyLen == 2
MaxNodes == 2

Alphabet == {"a", "b"}
Values == {0, 1}

Keys == UNION {[1..n -> Alphabet] : n \in 0..MaxKeyLen}

\* ------------------------------------------------------- std::size_t
LimbBase == 65536
NLimbs == 4

SizeZero == [i \in 1..NLimbs |-> 0]
SizeMax == [i \in 1..NLimbs |-> LimbBase - 1]

\* the std::size_t holding the small number n
SizeOf(n) == [i \in 1..NLimbs |-> IF i = 1 THEN n ELSE 0]

RECURSIVE IncFrom(_, _)
IncFrom(s, i) ==
  IF i > NLimbs THEN s
  ELSE IF s[i] = LimbBase - 1 THEN IncFrom([s EXCEPT ![i] = 0], i + 1)
  ELSE [s EXCEPT ![i] = s[i] + 1]

RECURSIVE DecFrom(_, _)
DecFrom(s, i) ==
  IF i > NLimbs THEN s
  ELSE IF s[i] = 0 THEN DecFrom([s EXCEPT ![i] = LimbBase - 1], i + 1)
  ELSE [s EXCEPT ![i] = s[i] - 1]

\* ++m_size and --m_size on an unsigned integer of NLimbs * 16 bits
SizeInc(s) == IncFrom(s, 1)
SizeDec(s) == DecFrom(s, 1)

\* ---------------------------------------------------------- TrieNode
nullopt == <<>>
nullptr == <<>>
Ptr(p) == <<p>>

NulChar == "\\0"
RootChar == NulChar
DefaultValue == 0

\* the array const char[N] that the string literal "text" denotes
StringLiteral(text) == Append(text, NulChar)

\* the characters of a C string: those before the first '\0'
RECURSIVE UpToNul(_)
UpToNul(arr) ==
  IF arr = <<>> \/ Head(arr) = NulChar THEN <<>>
  ELSE <<Head(arr)>> \o UpToNul(Tail(arr))

\* std::string_view(const char*) and std::basic_string<char>(const char*),
\* the conversions a literal undergoes when passed for such a parameter
string_view(arr) == UpToNul(arr)
basic_string(arr) == UpToNul(arr)

TrieNode(ch) == [character |-> ch, opt_children |-> nullopt, opt_value |-> nullopt]

\* *p for a node pointer p (a sequence of child indices) into the tree root
RECURSIVE Deref(_, _)
Deref(root, p) ==
  IF p = <<>> THEN root
  ELSE Deref(root.opt_children[1][Head(p)], Tail(p))

\* the tree root after *p = n
RECURSIVE Store(_, _, _)
Store(root, p, n) ==
  IF p = <<>> THEN n
  ELSE [root EXCEPT !.opt_children =
          <<[root.opt_children[1] EXCEPT ![Head(p)] =
               Store(root.opt_children[1][Head(p)], Tail(p), n)]>>]

\* std::find_if over children for child.character == ch: the index of the
\* first match, or Len(children) + 1 for children.end()
find_if(children, ch) ==
  LET hits == {i \in 1..Len(children) : children[i].character = ch}
  IN IF hits = {} THEN Len(children) + 1
     ELSE CHOOSE i \in hits : \A j \in hits : i <= j

\* the number of nodes below n
RECURSIVE NodeCount(_)
RECURSIVE NodeCountSeq(_)
NodeCount(n) ==
  IF n.opt_children = nullopt THEN 0 ELSE NodeCountSeq(n.opt_children[1])
NodeCountSeq(cs) ==
  IF cs = <<>> THEN 0 ELSE 1 + NodeCount(Head(cs)) + NodeCountSeq(Tail(cs))

\* ------------------------------------------------------------- Trie
\* Trie(): m_root('\0'), m_size(0)
Trie == [m_root |-> TrieNode(RootChar), m_size |-> SizeZero]

\* insert's loop without the search for an existing child: every key element
\* appends a new child
RECURSIVE insert_loop_appending(_, _, _, _)
insert_loop_appending(root, node, key, i) ==
  IF i > Len(key) THEN [root |-> root, node |-> node]
  ELSE
    LET cur == Deref(root, node)
        r1 == IF cur.opt_children = nullopt
              THEN Store(root, node, [cur EXCEPT !.opt_children = << <<>> >>])
              ELSE root
        children == Deref(r1, node).opt_children[1]
    IN insert_loop_appending(
         Store(r1, node, [Deref(r1, node) EXCEPT !.opt_children =
                            <<Append(children, TrieNode(key[i]))>>]),
         Append(node, Len(children) + 1), key, i + 1)

\* the path-creating loop of insert: node walks down from the pointer node
\* over key[i..], creating the children vector and the child when missing;
\* yields the tree and the node pointer the loop ends on
RECURSIVE insert_loop(_, _, _, _)
insert_loop(root, node, key, i) ==
  IF i > Len(key) THEN [root |-> root, node |-> node]
  ELSE
    LET cur == Deref(root, node)
        r1 == IF cur.opt_children = nullopt
              THEN Store(root, node, [cur EXCEPT !.opt_children = << <<>> >>])
              ELSE root
        children == Deref(r1, node).opt_children[1]
        it == find_if(children, key[i])
    IN IF it = Len(children) + 1
       THEN insert_loop(
              Store(r1, node, [Deref(r1, node) EXCEPT !.opt_children =
                                 <<Append(children, TrieNode(key[i]))>>]),
              Append(node, Len(children) + 1), key, i + 1)
       ELSE insert_loop(r1, Append(node, it), key, i + 1)

\* insert written as insert_or_assign: the value is stored even when one exists
insert_overwriting(self, kv) ==
  LET w == insert_loop(self.m_root, <<>>, kv[1], 1)
      n == Deref(w.root, w.node)
  IN [m_root |-> Store(w.root, w.node, [n EXCEPT !.opt_value = <<kv[2]>>]),
      m_size |-> IF n.opt_value = nullopt THEN SizeInc(self.m_size) ELSE self.m_size,
      ret |-> [first |-> Ptr(w.node), second |-> n.opt_value = nullopt]]

\* insert(kv): ret is the pair (pointer to the node holding the value, inserted)
insert(self, kv) ==
  LET w == insert_loop(self.m_root, <<>>, kv[1], 1)
      n == Deref(w.root, w.node)
  IN IF n.opt_value = nullopt
     THEN [m_root |-> Store(w.root, w.node, [n EXCEPT !.opt_value = <<kv[2]>>]),
           m_size |-> SizeInc(self.m_size),
           ret |-> [first |-> Ptr(w.node), second |-> TRUE]]
     ELSE [m_root |-> w.root,
           m_size |-> self.m_size,
           ret |-> [first |-> Ptr(w.node), second |-> FALSE]]

\* the path-creating loop of find_or_insert
RECURSIVE find_or_insert_loop(_, _, _, _)
find_or_insert_loop(root, current_node, key, i) ==
  IF i > Len(key) THEN [root |-> root, node |-> current_node]
  ELSE
    LET cur == Deref(root, current_node)
        r1 == IF cur.opt_children = nullopt
              THEN Store(root, current_node, [cur EXCEPT !.opt_children = << <<>> >>])
              ELSE root
        children == Deref(r1, current_node).opt_children[1]
        it == find_if(children, key[i])
    IN IF it = Len(children) + 1
       THEN find_or_insert_loop(
              Store(r1, current_node, [Deref(r1, current_node) EXCEPT !.opt_children =
                                         <<Append(children, TrieNode(key[i]))>>]),
              Append(current_node, Len(children) + 1), key, i + 1)
       ELSE find_or_insert_loop(r1, Append(current_node, it), key, i + 1)

\* find_or_insert(key): ret is the node whose value the returned reference names
find_or_insert(self, key) ==
  LET w == find_or_insert_loop(self.m_root, <<>>, key, 1)
      n == Deref(w.root, w.node)
  IN IF n.opt_value = nullopt
     THEN [m_root |-> Store(w.root, w.node, [n EXCEPT !.opt_value = <<DefaultValue>>]),
           m_size |-> SizeInc(self.m_size),
           ret |-> w.node]
     ELSE [m_root |-> w.root, m_size |-> self.m_size, ret |-> w.node]

\* operator[](KeyType&& key) for any range of char: the key is every element
\* of the range
subscript(self, key) == find_or_insert(self, key)

\* operator[](std::string_view key)
subscript_sv(self, key) == find_or_insert(self, key)

\* find_node(key): nullptr, or the pointer to the node at the end of key's path
RECURSIVE find_node_loop(_, _, _, _)
find_node_loop(root, current_node, key, i) ==
  IF i > Len(key) THEN Ptr(current_node)
  ELSE
    LET cur == Deref(root, current_node)
    IN IF cur.opt_children = nullopt THEN nullptr
       ELSE LET children == cur.opt_children[1]
                it == find_if(children, key[i])
            IN IF it = Len(children) + 1 THEN nullptr
               ELSE find_node_loop(root, Append(current_node, it), key, i + 1)

find_node(self, key) == find_node_loop(self.m_root, <<>>, key, 1)

\* contains(key)
contains(self, key) == find_node(self, key) # nullptr

\* find(key): nullptr, or the pointer to the node holding the value
find(self, key) ==
  LET node == find_node(self, key)
  IN IF node # nullptr /\ Deref(self.m_root, node[1]).opt_value # nullopt
     THEN node ELSE nullptr

\* at written over find_or_insert, as operator[] is: creates instead of throwing
at_creating(self, key) ==
  LET r == find_or_insert(self, key)
  IN [m_root |-> r.m_root, m_size |-> r.m_size, throws |-> FALSE, ret |-> Ptr(r.ret)]

\* at(key): throws std::out_of_range, or ret is the node whose value is returned
at(self, key) ==
  LET node == find_node(self, key)
  IN IF node = nullptr \/ Deref(self.m_root, node[1]).opt_value = nullopt
     THEN [m_root |-> self.m_root, m_size |-> self.m_size,
           throws |-> TRUE, ret |-> nullptr]
     ELSE [m_root |-> self.m_root, m_size |-> self.m_size,
           throws |-> FALSE, ret |-> node]

\* children.erase(it)
VectorErase(children, it) ==
  [j \in 1..(Len(children) - 1) |-> IF j < it THEN children[j] ELSE children[j + 1]]

\* erase_recursive with one slip, named by bug:
\*   "prune_valueless"     the child is pruned whenever it has no value
\*   "prune_leaf"          the child is pruned when it has no value and its
\*                         children are absent or empty
\*   "terminal_unchecked"  the terminal node is reset and counted whether or
\*                         not it holds a value
\*   "terminal_dec"        --m_size is done at the terminal node even when it
\*                         holds no value
RECURSIVE erase_recursive_with(_, _, _, _, _)
erase_recursive_with(node, size, key, depth, bug) ==
  IF depth = Len(key)
  THEN IF node.opt_value # nullopt \/ bug = "terminal_unchecked"
       THEN [node |-> [node EXCEPT !.opt_value = nullopt],
             m_size |-> SizeDec(size), ret |-> TRUE]
       ELSE [node |-> node,
             m_size |-> IF bug = "terminal_dec" THEN SizeDec(size) ELSE size,
             ret |-> FALSE]
  ELSE IF node.opt_children = nullopt
  THEN [node |-> node, m_size |-> size, ret |-> FALSE]
  ELSE
    LET children == node.opt_children[1]
        it == find_if(children, key[depth + 1])
    IN IF it = Len(children) + 1
       THEN [node |-> node, m_size |-> size, ret |-> FALSE]
       ELSE
         LET r == erase_recursive_with(children[it], size, key, depth + 1, bug)
             kept == [children EXCEPT ![it] = r.node]
             empty_children == /\ r.node.opt_children # nullopt
                               /\ r.node.opt_children[1] = <<>>
             prune == /\ r.node.opt_value = nullopt
                      /\ \/ empty_children
                         \/ bug = "prune_valueless"
                         \/ bug = "prune_leaf" /\ r.node.opt_children = nullopt
         IN IF r.ret
            THEN IF prune
                 THEN [node |-> [node EXCEPT !.opt_children = <<VectorErase(kept, it)>>],
                       m_size |-> r.m_size, ret |-> TRUE]
                 ELSE [node |-> [node EXCEPT !.opt_children = <<kept>>],
                       m_size |-> r.m_size, ret |-> TRUE]
            ELSE [node |-> [node EXCEPT !.opt_children = <<kept>>],
                  m_size |-> r.m_size, ret |-> FALSE]

erase_recursive_prune_valueless(node, size, key, depth) ==
  erase_recursive_with(node, size, key, depth, "prune_valueless")
erase_recursive_prune_leaf(node, size, key, depth) ==
  erase_recursive_with(node, size, key, depth, "prune_leaf")
erase_recursive_terminal_unchecked(node, size, key, depth) ==
  erase_recursive_with(node, size, key, depth, "terminal_unchecked")
erase_recursive_terminal_dec(node, size, key, depth) ==
  erase_recursive_with(node, size, key, depth, "terminal_dec")

\* erase_recursive(node, key, depth), depth counted from 0 as in the code:
\* yields the node as left by the call, m_size and the returned flag
RECURSIVE erase_recursive(_, _, _, _)
erase_recursive(node, size, key, depth) ==
  IF depth = Len(key)
  THEN IF node.opt_value # nullopt
       THEN [node |-> [node EXCEPT !.opt_value = nullopt],
             m_size |-> SizeDec(size), ret |-> TRUE]
       ELSE [node |-> node, m_size |-> size, ret |-> FALSE]
  ELSE IF node.opt_children = nullopt
  THEN [node |-> node, m_size |-> size, ret |-> FALSE]
  ELSE
    LET children == node.opt_children[1]
        it == find_if(children, key[depth + 1])
    IN IF it = Len(children) + 1
       THEN [node |-> node, m_size |-> size, ret |-> FALSE]
       ELSE
         LET r == erase_recursive(children[it], size, key, depth + 1)
             kept == [children EXCEPT ![it] = r.node]
         IN IF r.ret
            THEN IF /\ r.node.opt_children # nullopt
                    /\ r.node.opt_children[1] = <<>>
                    /\ r.node.opt_value = nullopt
                 THEN [node |-> [node EXCEPT !.opt_children = <<VectorErase(kept, it)>>],
                       m_size |-> r.m_size, ret |-> TRUE]
                 ELSE [node |-> [node EXCEPT !.opt_children = <<kept>>],
                       m_size |-> r.m_size, ret |-> TRUE]
            ELSE [node |-> [node EXCEPT !.opt_children = <<kept>>],
                  m_size |-> r.m_size, ret |-> FALSE]

\* erase(key)
erase(self, key) ==
  LET r == erase_recursive(self.m_root, self.m_size, key, 0)
  IN [m_root |-> r.node, m_size |-> r.m_size, ret |-> r.ret]

\* size(), empty()
size(self) == self.m_size
empty(self) == self.m_size = SizeZero

\* clear()
clear(self) ==
  [m_root |-> [self.m_root EXCEPT !.opt_children = nullopt], m_size |-> SizeZero]

\* --------------------------------------------------------- iterator
\* std::stack as a sequence whose last element is the top; an entry is the
\* pair (node pointer, accumulated prefix)
\* iterator() = default: empty stack, value-initialised current_pair
iterator_default == [stack |-> <<>>, current_pair |-> <<<<>>, DefaultValue>>]

\* PushChildren without the reversal: the first child is pushed first
PushChildren_forward(stack, root, p, prefix) ==
  LET node == Deref(root, p)
  IN IF node.opt_children = nullopt THEN stack
     ELSE LET cs == node.opt_children[1]
          IN stack \o [j \in 1..Len(cs) |->
                         [node |-> Append(p, j),
                          prefix |-> Append(prefix, cs[j].character)]]

\* the entries pushed for the children of the node at p, last child first
PushChildren(stack, root, p, prefix) ==
  LET node == Deref(root, p)
  IN IF node.opt_children = nullopt THEN stack
     ELSE LET cs == node.opt_children[1]
              n == Len(cs)
          IN stack \o [j \in 1..n |->
                         [node |-> Append(p, n + 1 - j),
                          prefix |-> Append(prefix, cs[n + 1 - j].character)]]

\* iterator::advance(): the iterator it leaves, and whether it returned from
\* inside the loop with a pair (line 201) or fell out of it (line 212)
RECURSIVE advance_run(_, _)
advance_run(root, it) ==
  IF it.stack = <<>> THEN [it |-> [it EXCEPT !.stack = <<>>], yielded |-> FALSE]
  ELSE
    LET top == it.stack[Len(it.stack)]
        popped == SubSeq(it.stack, 1, Len(it.stack) - 1)
        node == Deref(root, top.node)
        pushed == PushChildren(popped, root, top.node, top.prefix)
    IN IF node.opt_value # nullopt
       THEN [it |-> [stack |-> pushed,
                     current_pair |-> <<top.prefix, node.opt_value[1]>>],
             yielded |-> TRUE]
       ELSE advance_run(root, [it EXCEPT !.stack = pushed])

\* iterator::advance()
advance(root, it) == advance_run(root, it).it

\* iterator(TrieNode* root), with whether its advance() produced a pair
iterator_run(root, node) ==
  IF node # nullptr
  THEN advance_run(root, [iterator_default EXCEPT
                            !.stack = <<[node |-> node[1], prefix |-> <<>>]>>])
  ELSE [it |-> iterator_default, yielded |-> FALSE]

\* iterator(TrieNode* root)
iterator(root, node) == iterator_run(root, node).it

\* iterator::operator==, operator!=
iterator_eq(a, b) == a.stack = b.stack
iterator_ne(a, b) == ~iterator_eq(a, b)

\* begin(), end()
begin(self) == iterator_default
end(self) == iterator_default

\* the pairs visited by  for (it = first; it != last; ++it) visit(*it)
RECURSIVE ForLoop(_, _, _)
ForLoop(root, first, lst) ==
  IF iterator_ne(first, lst)
  THEN <<first.current_pair>> \o ForLoop(root, advance(root, first), lst)
  ELSE <<>>

\* the pairs produced by advancing it, whose stack is not empty, until its
\* stack is empty
RECURSIVE Exhaust(_, _)
Exhaust(root, it) ==
  LET r == advance_run(root, it)
      y == IF r.yielded THEN <<r.it.current_pair>> ELSE <<>>
  IN IF r.it.stack = <<>> THEN y ELSE y \o Exhaust(root, r.it)

\* the pairs produced by  iterator c(&m_root); while (stack not empty) ++c;
CursorYields(root) ==
  LET c == iterator_run(root, Ptr(<<>>))
      y == IF c.yielded THEN <<c.it.current_pair>> ELSE <<>>
  IN IF c.it.stack = <<>> THEN y ELSE y \o Exhaust(root, c.it)

\* ------------------------------------------------------- the machine
\* The container is used by one caller, one call at a time (no operation
\* suspends).  last is the call that has just returned, with what it
\* returned, until the caller is done with the result; NoCall between calls.
This == [m_root |-> m_root, m_size |-> m_size]

NoCall == [op |-> "none", key |-> <<>>, arg |-> 0, ret |-> 0]

Init ==
  /\ m_root = Trie.m_root
  /\ m_size = Trie.m_size
  /\ last = NoCall

\* the model keeps at most MaxNodes nodes below the root
Fits(r) == NodeCount(r.m_root) <= MaxNodes

\* Every call below is written with a string literal "key", key \in Keys.

\* trie["key"], read as in main.cpp:7: the literal is itself a range of char,
\* so the template operator[] is chosen
Subscript(key) ==
  /\ last.op = "none"
  /\ LET r == subscript(This, StringLiteral(key))
     IN /\ Fits(r)
        /\ m_root' = r.m_root
        /\ m_size' = r.m_size
        /\ last' = [op |-> "subscript", key |-> key, arg |-> 0,
                    ret |-> Deref(r.m_root, r.ret).opt_value[1]]

\* trie["key"] = v, as in main.cpp:5
SubscriptAssign(key, v) ==
  /\ last.op = "none"
  /\ LET r == subscript(This, StringLiteral(key))
         n == Deref(r.m_root, r.ret)
     IN /\ Fits(r)
        /\ m_root' = Store(r.m_root, r.ret, [n EXCEPT !.opt_value = <<v>>])
        /\ m_size' = r.m_size
        /\ last' = [op |-> "assign", key |-> key, arg |-> v, ret |-> 0]

\* trie[std::string_view("key")]
SubscriptView(key) ==
  /\ last.op = "none"
  /\ LET r == subscript_sv(This, string_view(StringLiteral(key)))
     IN /\ Fits(r)
        /\ m_root' = r.m_root
        /\ m_size' = r.m_size
        /\ last' = [op |-> "subscript_sv", key |-> key, arg |-> 0,
                    ret |-> Deref(r.m_root, r.ret).opt_value[1]]

\* trie[std::string_view("key")] = v
SubscriptViewAssign(key, v) ==
  /\ last.op = "none"
  /\ LET r == subscript_sv(This, string_view(StringLiteral(key)))
         n == Deref(r.m_root, r.ret)
     IN /\ Fits(r)
        /\ m_root' = Store(r.m_root, r.ret, [n EXCEPT !.opt_value = <<v>>])
        /\ m_size' = r.m_size
        /\ last' = [op |-> "assign_sv", key |-> key, arg |-> v, ret |-> 0]

\* trie.insert({"key", v})
Insert(key, v) ==
  /\ last.op = "none"
  /\ LET r == insert(This, <<basic_string(StringLiteral(key)), v>>)
     IN /\ Fits(r)
        /\ m_root' = r.m_root
        /\ m_size' = r.m_size
        /\ last' = [op |-> "insert", key |-> key, arg |-> v, ret |-> r.ret]

\* trie.contains("key")
Contains(key) ==
  /\ last.op = "none"
  /\ UNCHANGED <<m_root, m_size>>
  /\ last' = [op |-> "contains", key |-> key, arg |-> 0,
              ret |-> contains(This, string_view(StringLiteral(key)))]

\* trie.find("key")
Find(key) ==
  /\ last.op = "none"
  /\ UNCHANGED <<m_root, m_size>>
  /\ last' = [op |-> "find", key |-> key, arg |-> 0,
              ret |-> find(This, string_view(StringLiteral(key)))]

\* trie.at("key")
At(key) ==
  /\ last.op = "none"
  /\ LET r == at(This, string_view(StringLiteral(key)))
     IN /\ m_root' = r.m_root
        /\ m_size' = r.m_size
        /\ last' = [op |-> "at", key |-> key, arg |-> 0,
                    ret |-> [throws |-> r.throws, ref |-> r.ret]]

\* trie.erase("key")
Erase(key) ==
  /\ last.op = "none"
  /\ LET r == erase(This, string_view(StringLiteral(key)))
     IN /\ m_root' = r.m_root
        /\ m_size' = r.m_size
        /\ last' = [op |-> "erase", key |-> key, arg |-> 0, ret |-> r.ret]

\* trie.clear()
Clear ==
  /\ last.op = "none"
  /\ LET r == clear(This)
     IN /\ m_root' = r.m_root
        /\ m_size' = r.m_size
        /\ last' = [op |-> "clear", key |-> <<>>, arg |-> 0, ret |-> 0]

\* for (auto it = trie.begin(); it != trie.end(); ++it) collecting *it
Iterate ==
  /\ last.op = "none"
  /\ UNCHANGED <<m_root, m_size>>
  /\ last' = [op |-> "iterate", key |-> <<>>, arg |-> 0,
              ret |-> ForLoop(m_root, begin(This), end(This))]

\* iterator c(&m_root), advanced until its stack is exhausted, collecting the
\* pairs it produces
Traverse ==
  /\ last.op = "none"
  /\ UNCHANGED <<m_root, m_size>>
  /\ last' = [op |-> "traverse", key |-> <<>>, arg |-> 0, ret |-> CursorYields(m_root)]

\* for (iterator c(&m_root); c != iterator(); ++c) collecting *c
CursorLoop ==
  /\ last.op = "none"
  /\ UNCHANGED <<m_root, m_size>>
  /\ last' = [op |-> "cursor_loop", key |-> <<>>, arg |-> 0,
              ret |-> ForLoop(m_root, iterator(m_root, Ptr(<<>>)), iterator_default)]

\* the caller is done with the result of the last call
Discard ==
  /\ last.op # "none"
  /\ last' = NoCall
  /\ UNCHANGED <<m_root, m_size>>

Next ==
  \/ \E key \in Keys : Subscript(key)
  \/ \E key \in Keys, v \in Values : SubscriptAssign(key, v)
  \/ \E key \in Keys : SubscriptView(key)
  \/ \E key \in Keys, v \in Values : SubscriptViewAssign(key, v)
  \/ \E key \in Keys, v \in Values : Insert(key, v)
  \/ \E key \in Keys : Contains(key)
  \/ \E key \in Keys : Find(key)
  \/ \E key \in Keys : At(key)
  \/ \E key \in Keys : Erase(key)
  \/ Clear
  \/ Iterate
  \/ Traverse
  \/ CursorLoop
  \/ Discard

Spec == Init /\ [][Next]_vars

\* ------------------------------------------- the machine, deeper tries
\* The same caller using the keys "a", "ab" and "b" only, with no limit on
\* the number of nodes: a node with a child can have a later sibling, and the
\* literal calls add a '\0' child below each of the three nodes.  The tries
\* are walked with the cursor.  The calls that need no limit are the actions
\* above.
DeepKeys == {<<"a">>, <<"a", "b">>, <<"b">>}

\* trie["key"]
DeepSubscript(key) ==
  /\ last.op = "none"
  /\ LET r == subscript(This, StringLiteral(key))
     IN /\ m_root' = r.m_root
        /\ m_size' = r.m_size
        /\ last' = [op |-> "subscript", key |-> key, arg |-> 0,
                    ret |-> Deref(r.m_root, r.ret).opt_value[1]]

\* trie["key"] = v
DeepSubscriptAssign(key, v) ==
  /\ last.op = "none"
  /\ LET r == subscript(This, StringLiteral(key))
         n == Deref(r.m_root, r.ret)
     IN /\ m_root' = Store(r.m_root, r.ret, [n EXCEPT !.opt_value = <<v>>])
        /\ m_size' = r.m_size
        /\ last' = [op |-> "assign", key |-> key, arg |-> v, ret |-> 0]

\* trie[std::string_view("key")]
DeepSubscriptView(key) ==
  /\ last.op = "none"
  /\ LET r == subscript_sv(This, string_view(StringLiteral(key)))
     IN /\ m_root' = r.m_root
        /\ m_size' = r.m_size
        /\ last' = [op |-> "subscript_sv", key |-> key, arg |-> 0,
                    ret |-> Deref(r.m_root, r.ret).opt_value[1]]

\* trie[std::string_view("key")] = v
DeepSubscriptViewAssign(key, v) ==
  /\ last.op = "none"
  /\ LET r == subscript_sv(This, string_view(StringLiteral(key)))
         n == Deref(r.m_root, r.ret)
     IN /\ m_root' = Store(r.m_root, r.ret, [n EXCEPT !.opt_value = <<v>>])
        /\ m_size' = r.m_size
        /\ last' = [op |-> "assign_sv", key |-> key, arg |-> v, ret |-> 0]

\* trie.insert({"key", v})
DeepInsert(key, v) ==
  /\ last.op = "none"
  /\ LET r == insert(This, <<basic_string(StringLiteral(key)), v>>)
     IN /\ m_root' = r.m_root
        /\ m_size' = r.m_size
        /\ last' = [op |-> "insert", key |-> key, arg |-> v, ret |-> r.ret]

NextDeep ==
  \/ \E key \in DeepKeys : DeepSubscript(key)
  \/ \E key \in DeepKeys, v \in Values : DeepSubscriptAssign(key, v)
  \/ \E key \in DeepKeys : DeepSubscriptView(key)
  \/ \E key \in DeepKeys, v \in Values : DeepSubscriptViewAssign(key, v)
  \/ \E key \in DeepKeys, v \in Values : DeepInsert(key, v)
  \/ \E key \in DeepKeys : Erase(key)
  \/ Clear
  \/ Traverse
  \/ Discard

SpecDeep == Init /\ [][NextDeep]_vars

\* ------------------------------------------------------- properties
ThisNext == [m_root |-> m_root', m_size |-> m_size']

\* the optional value of the node at the end of key's label path below n;
\* nullopt when there is no such node or it carries no value
RECURSIVE ValueAt(_, _)
ValueAt(n, key) ==
  IF key = <<>> THEN n.opt_value
  ELSE IF n.opt_children = nullopt THEN nullopt
  ELSE LET cs == n.opt_children[1]
           m == {i \in 1..Len(cs) : cs[i].character = Head(key)}
       IN IF m = {} THEN nullopt
          ELSE ValueAt(cs[CHOOSE i \in m : TRUE], Tail(key))

\* the number of nodes of the tree n, n included, whose value is present
RECURSIVE CountValues(_)
RECURSIVE CountValuesSeq(_)
CountValues(n) ==
  (IF n.opt_value = nullopt THEN 0 ELSE 1)
  + (IF n.opt_children = nullopt THEN 0 ELSE CountValuesSeq(n.opt_children[1]))
CountValuesSeq(cs) ==
  IF cs = <<>> THEN 0 ELSE CountValues(Head(cs)) + CountValuesSeq(Tail(cs))

\* n has no value and an absent or empty children set
DeadWeight(n) ==
  /\ n.opt_value = nullopt
  /\ (n.opt_children = nullopt \/ n.opt_children[1] = <<>>)

\* some node strictly below n is dead weight
RECURSIVE DeadWeightBelow(_)
DeadWeightBelow(n) ==
  /\ n.opt_children # nullopt
  /\ \E i \in 1..Len(n.opt_children[1]) :
        \/ DeadWeight(n.opt_children[1][i])
        \/ DeadWeightBelow(n.opt_children[1][i])

\* b is a + 1 as numbers (no wrap)
IncreasedByOne(a, b) == a # SizeMax /\ b = SizeInc(a)

\* the (key, value) pairs stored in the trie
StoredPairs(root) ==
  {<<k, v>> \in Keys \X Values : ValueAt(root, k) = <<v>>}

\* C1: contains(k) returns true iff a node exists at the full path of k and
\* that node carries a value.
C1_ContainsIffStored ==
  last.op = "contains" => (last.ret <=> ValueAt(m_root, last.key) # nullopt)

\* C2: after erase(k) returns, true or false, contains(k) is false.
C2_EraseThenNotContained ==
  last.op = "erase" => ~contains(This, string_view(StringLiteral(last.key)))

\* C3: in every reachable state size() equals the number of nodes reachable
\* from the root, root included, whose value is present.
C3_SizeCountsValues ==
  size(This) = SizeOf(CountValues(m_root))

\* C4: in every state between operations no non-root node reachable from the
\* root has both no value and an absent-or-empty children set.
C4_NoDeadWeight ==
  ~DeadWeightBelow(m_root)

\* C5: when a value v1 is already stored at k, insert(k, v2) returns
\* inserted = false, leaves the stored value v1 and size unchanged, and the
\* returned pointer refers to the stored v1.
C5_InsertKeepsExisting ==
  [][(last'.op = "insert" /\ ValueAt(m_root, last'.key) # nullopt) =>
       /\ last'.ret.second = FALSE
       /\ ValueAt(m_root', last'.key) = ValueAt(m_root, last'.key)
       /\ m_size' = m_size
       /\ last'.ret.first # nullptr
       /\ Deref(m_root', last'.ret.first[1]).opt_value = ValueAt(m_root, last'.key)
    ]_vars

\* an insert of a value other than the stored one has returned inserted = false
C5_Witness ==
  /\ last.op = "insert"
  /\ last.ret.second = FALSE
  /\ last.key # <<>>
  /\ ValueAt(m_root, last.key) # nullopt
  /\ ValueAt(m_root, last.key) # <<last.arg>>

\* C6: when no value is stored at k, insert(k, v) returns inserted = true, and
\* afterwards contains(k) is true, find(k) yields v, and size has increased
\* by exactly one.
C6_InsertStoresNew ==
  [][(last'.op = "insert" /\ ValueAt(m_root, last'.key) = nullopt) =>
       /\ last'.ret.second = TRUE
       /\ contains(ThisNext, string_view(StringLiteral(last'.key)))
       /\ find(ThisNext, string_view(StringLiteral(last'.key))) # nullptr
       /\ Deref(m_root', find(ThisNext, string_view(StringLiteral(last'.key)))[1]).opt_value = <<last'.arg>>
       /\ IncreasedByOne(m_size, m_size')
    ]_vars

\* C7: at(k) throws exactly when the path of k does not exist or its terminal
\* node has no value, otherwise returns the stored value; in both outcomes
\* the nodes, the stored values and size are left unchanged.
C7_AtReadOnly ==
  [][last'.op = "at" =>
       /\ last'.ret.throws <=> (ValueAt(m_root, last'.key) = nullopt)
       /\ ~last'.ret.throws =>
            /\ last'.ret.ref # nullptr
            /\ Deref(m_root, last'.ret.ref[1]).opt_value = ValueAt(m_root, last'.key)
       /\ m_root' = m_root
       /\ m_size' = m_size
    ]_vars

\* at has thrown for a key whose path exists but whose node has no value
C7_Witness ==
  /\ last.op = "at"
  /\ last.ret.throws
  /\ last.key # <<>>
  /\ find_node(This, string_view(StringLiteral(last.key))) # nullptr

\* C8: after clear(), size() is 0, empty() is true, and contains(k) is false
\* for every key k that was stored before the clear, the empty key included.
C8_ClearForgetsKeys ==
  [][last'.op = "clear" =>
       /\ size(ThisNext) = SizeZero
       /\ empty(ThisNext)
       /\ \A k \in Keys :
            ValueAt(m_root, k) # nullopt =>
              ~contains(ThisNext, string_view(StringLiteral(k)))
    ]_vars

\* C9: iteration from begin() to end() yields exactly the stored (key, value)
\* pairs, one per value-bearing node, so the number of pairs visited equals
\* size(), and begin() != end() whenever size() > 0.
C9_IterationYieldsStored ==
  last.op = "iterate" =>
    /\ {last.ret[i] : i \in 1..Len(last.ret)} = StoredPairs(m_root)
    /\ SizeOf(Len(last.ret)) = size(This)
    /\ (size(This) # SizeZero => iterator_ne(begin(This), end(This)))

\* C10: after subscript(k) returns, contains(k) is true; size has increased
\* by exactly one if no value was stored at k before the call and is
\* unchanged otherwise; a value assigned through the returned reference is
\* the value read back by a later subscript(k), find(k) or at(k).
C10_Subscript ==
  [][last'.op \in {"subscript", "assign", "subscript_sv", "assign_sv"} =>
       LET k == string_view(StringLiteral(last'.key))
           s == IF last'.op \in {"subscript", "assign"}
                THEN subscript(ThisNext, StringLiteral(last'.key))
                ELSE subscript_sv(ThisNext, k)
           f == find(ThisNext, k)
           a == at(ThisNext, k)
       IN /\ contains(ThisNext, k)
          /\ ValueAt(m_root, last'.key) = nullopt => IncreasedByOne(m_size, m_size')
          /\ ValueAt(m_root, last'.key) # nullopt => m_size' = m_size
          /\ last'.op \in {"assign", "assign_sv"} =>
               /\ Deref(s.m_root, s.ret).opt_value = <<last'.arg>>
               /\ f # nullptr
               /\ Deref(m_root', f[1]).opt_value = <<last'.arg>>
               /\ ~a.throws
               /\ Deref(m_root', a.ret[1]).opt_value = <<last'.arg>>
    ]_vars

\* p is a proper prefix of q
StrictPrefix(p, q) == Len(p) < Len(q) /\ SubSeq(q, 1, Len(p)) = p

\* C11: for keys p and q stored with distinct values, one a strict prefix of
\* the other, erasing either removes only its own value, keeps the erased
\* key's node when it is the prefix, and find of the other key still yields
\* that key's value.
C11_PrefixIndependence ==
  [][last'.op = "erase" =>
       \A q \in Keys :
         LET e == last'.key
             f == find(ThisNext, string_view(StringLiteral(q)))
         IN (/\ StrictPrefix(e, q) \/ StrictPrefix(q, e)
             /\ ValueAt(m_root, e) # nullopt
             /\ ValueAt(m_root, q) # nullopt
             /\ ValueAt(m_root, q) # ValueAt(m_root, e)) =>
              /\ last'.ret = TRUE
              /\ ValueAt(m_root', e) = nullopt
              /\ \A k \in Keys \ {e} : ValueAt(m_root', k) = ValueAt(m_root, k)
              /\ StrictPrefix(e, q) =>
                   find_node(ThisNext, string_view(StringLiteral(e))) # nullptr
              /\ f # nullptr
              /\ Deref(m_root', f[1]).opt_value = ValueAt(m_root, q)
    ]_vars

\* a stored non-empty key has been erased while a longer key it prefixes
\* holds a value
C11_Witness ==
  /\ last.op = "erase"
  /\ last.ret = TRUE
  /\ last.key # <<>>
  /\ \E q \in Keys : StrictPrefix(last.key, q) /\ ValueAt(m_root, q) # nullopt

\* b is a - 1 as numbers (no wrap)
DecreasedByOne(a, b) == a # SizeZero /\ b = SizeDec(a)

\* C12: erase(k) returns true iff a value was stored at k before the call;
\* size decreases by exactly 1 when it returns true and is unchanged when it
\* returns false.
C12_EraseReturn ==
  [][last'.op = "erase" =>
       /\ last'.ret <=> (ValueAt(m_root, last'.key) # nullopt)
       /\ last'.ret => DecreasedByOne(m_size, m_size')
       /\ ~last'.ret => m_size' = m_size
    ]_vars

\* C13: calling erase(k) twice in succession makes the second call return
\* false and leave size and the whole trie unchanged.
C13_EraseIdempotent ==
  last.op = "erase" =>
    LET second == erase(This, string_view(StringLiteral(last.key)))
    IN /\ second.ret = FALSE
       /\ second.m_size = m_size
       /\ second.m_root = m_root

\* erase(k) has just removed the value of a key that still has a node
C13_Witness ==
  /\ last.op = "erase"
  /\ last.ret = TRUE
  /\ last.key # <<>>
  /\ find_node(This, string_view(StringLiteral(last.key))) # nullptr
  /\ ValueAt(m_root, last.key) = nullopt

\* C14: when erase(k) returns false the trie is left exactly as before: same
\* nodes, same children order, same stored values, same size.
C14_FailedEraseNoChange ==
  [][(last'.op = "erase" /\ last'.ret = FALSE) =>
       /\ m_root' = m_root
       /\ m_size' = m_size
    ]_vars

\* erase has returned false for a key whose path exists without a value
C14_Witness ==
  /\ last.op = "erase"
  /\ last.ret = FALSE
  /\ last.key # <<>>
  /\ find_node(This, string_view(StringLiteral(last.key))) # nullptr

\* C15: in every reachable state, whatever keys were used (the empty key
\* included), the root node carries no value.
C15_RootHasNoValue ==
  m_root.opt_value = nullopt

\* no two children of n, or of any node below n, have the same character
RECURSIVE UniqueLabels(_)
UniqueLabels(n) ==
  \/ n.opt_children = nullopt
  \/ LET cs == n.opt_children[1]
     IN /\ \A i, j \in 1..Len(cs) : cs[i].character = cs[j].character => i = j
        /\ \A i \in 1..Len(cs) : UniqueLabels(cs[i])

\* the node pointers of the tree n whose labels from the root spell key
RECURSIVE PathsOf(_, _)
PathsOf(n, key) ==
  IF key = <<>> THEN {<<>>}
  ELSE IF n.opt_children = nullopt THEN {}
  ELSE LET cs == n.opt_children[1]
       IN UNION {{<<i>> \o p : p \in PathsOf(cs[i], Tail(key))} :
                   i \in {j \in 1..Len(cs) : cs[j].character = Head(key)}}

\* every character a key element or a literal's terminator can be
Chars == Alphabet \cup {NulChar}
AllKeys == UNION {[1..n -> Chars] : n \in 0..(MaxKeyLen + 1)}

\* C16: in every reachable state no two children of the same node carry the
\* same element label, so every key maps to at most one root-to-node path.
C16_UniqueChildLabels ==
  /\ UniqueLabels(m_root)
  /\ \A k \in AllKeys : Cardinality(PathsOf(m_root, k)) <= 1

\* a node has two children, with different labels
C16_Witness ==
  /\ m_root.opt_children # nullopt
  /\ Len(m_root.opt_children[1]) = 2
  /\ last.op \in {"insert", "subscript", "assign", "subscript_sv", "assign_sv"}


\* the stored pairs in depth-first pre-order: a node's own pair, then the
\* subtrees of its children in the order of the children collection
RECURSIVE PreOrder(_, _), PreOrderSeq(_, _)
PreOrder(n, prefix) ==
  (IF n.opt_value # nullopt THEN <<<<prefix, n.opt_value[1]>>>> ELSE <<>>)
    \o (IF n.opt_children = nullopt THEN <<>>
        ELSE PreOrderSeq(n.opt_children[1], prefix))
PreOrderSeq(cs, prefix) ==
  IF cs = <<>> THEN <<>>
  ELSE PreOrder(Head(cs), Append(prefix, Head(cs).character))
         \o PreOrderSeq(Tail(cs), prefix)

\* every node of o is a node of n at the same position: siblings created
\* later come after the ones that were there
RECURSIVE Extends(_, _)
Extends(o, n) ==
  /\ o.character = n.character
  /\ o.opt_children # nullopt =>
       /\ n.opt_children # nullopt
       /\ Len(n.opt_children[1]) >= Len(o.opt_children[1])
       /\ \A j \in 1..Len(o.opt_children[1]) :
            Extends(o.opt_children[1][j], n.opt_children[1][j])

\* C17: a cursor constructed on the root and advanced until its stack is
\* exhausted yields every value-bearing node exactly once, in depth-first
\* pre-order (a node's pair before its descendants', sibling subtrees in
\* children-collection order), each key being the concatenation of the labels
\* on the path; and the children-collection order is the order in which the
\* sibling branches were first created: a call other than clear() leaves every
\* existing node where it was and puts new siblings after it, and clear()
\* leaves no branch.
C17_CursorPreOrder ==
  [][/\ last'.op = "traverse" =>
          /\ last'.ret = PreOrder(m_root', <<>>)
          /\ Len(last'.ret) = CountValues(m_root')
          /\ \A i, j \in 1..Len(last'.ret) :
               i # j => last'.ret[i][1] # last'.ret[j][1]
     /\ last'.op # "clear" => Extends(m_root, m_root')
     /\ last'.op = "clear" => m_root'.opt_children = nullopt]_<<last.op, vars>>

\* the branch b was created before the branch a, b has a child and a has a
\* child, all four nodes hold a value, and the trie has been traversed: b's
\* child comes before a, and a before its child
C17_Witness ==
  /\ last.op = "traverse"
  /\ Len(last.ret) = 4
  /\ last.ret[1][1] = <<"b">>
  /\ last.ret[2][1] = <<"b", NulChar>>
  /\ last.ret[3][1] = <<"a">>
  /\ last.ret[4][1] = <<"a", "b">>

\* C18: the loop  c = cursor(root); while c != end: visit(*c); ++c  visits
\* every stored pair, the last one in traversal order and the only one of a
\* single-key trie included: a cursor on a yielded pair that has not been
\* stepped past is not equal to the end sentinel.
C18_CursorLoopVisitsAll ==
  last.op = "cursor_loop" => last.ret = PreOrder(m_root, <<>>)


\* no node has a children collection that is present and empty
RECURSIVE NoEmptyChildren(_)
NoEmptyChildren(n) ==
  n.opt_children # nullopt =>
    /\ n.opt_children[1] # <<>>
    /\ \A j \in 1..Len(n.opt_children[1]) : NoEmptyChildren(n.opt_children[1][j])

\* C19: in every reachable state a children collection that is present has
\* at least one child, so erase never takes its pruning branch and never
\* removes a node (every node stays where it was, none is added); the set of
\* nodes shrinks only through clear().
C19_EraseRemovesNoNode ==
  [][/\ NoEmptyChildren(m_root) /\ NoEmptyChildren(m_root')
     /\ last'.op = "erase" =>
          /\ Extends(m_root, m_root')
          /\ NodeCount(m_root') = NodeCount(m_root)
     /\ last'.op # "clear" => NodeCount(m_root') >= NodeCount(m_root)]_<<last.op, vars>>

\* an erase has removed the value of a leaf other than the root, and the leaf
\* is still there
C19_Witness ==
  /\ last.op = "erase"
  /\ last.ret = TRUE
  /\ last.key # <<>>
  /\ LET node == find_node(This, string_view(StringLiteral(last.key)))
     IN /\ node # nullptr
        /\ Deref(m_root, node[1]).opt_value = nullopt
        /\ Deref(m_root, node[1]).opt_children = nullopt

\* C20: the size counter never wraps: whenever erase decrements it, it is at
\* least 1 beforehand.
C20_SizeNeverWraps ==
  [][(last'.op = "erase" /\ m_size' = SizeDec(m_size)) => m_size # SizeZero]_vars

====
